---- MODULE Spec2Model ----
(***************************************************************************)
(* Background workers of google-cloud-gui (src/worker.py, src/cloud.py)    *)
(* and the handlers of the interactive surface that start them             *)
(* (src/page.py, src/window.py, src/menu.py, src/dialog.py).               *)
(*                                                                         *)
(* One worker thread is followed from start() to the end of run(): the     *)
(* eleven GoogleCloudWorker subclasses, SSHConnectWorker and               *)
(* SSHReadStdIOWorker; a second worker appears only as a blocked peer.     *)
(* The remote collaborators (the compute client, the extended operation    *)
(* handle, the SSH client, the channel file and the pyte screen/stream     *)
(* pair) and the user are the environment: every outcome they can produce  *)
(* is a nondeterministic choice.                                           *)
(***************************************************************************)
EXTENDS Integers, Sequences, FiniteSets, TLC

(***************************************************************************)
(* Bounds of the model.                                                    *)
(***************************************************************************)
\* number of non-empty chunks one run of the read loop may receive
MaxReads == 2
\* number of characters of a chunk in front of its line terminator
MaxBody == 2
\* bounded stand-ins for the dimensions of Screen(256, 24)
ScreenColumns == 2
ScreenLines == 2
\* number of commands sent during one run of the read loop
MaxSends == 1

(***************************************************************************)
(* Program constants.                                                      *)
(***************************************************************************)
\* timeout: int = 300
DefaultTimeout == 300

(***************************************************************************)
(* Worker classes.                                                         *)
(***************************************************************************)
ReadOnlyWorkers == {"LoadInstanceListWorker", "LoadInstanceDetailsWorker"}

MutatingWorkers ==
    {"CreateInstanceWorker", "StartInstanceWorker", "ResumeInstanceWorker",
     "StopInstanceWorker", "SuspendInstanceWorker", "ResetInstanceWorker",
     "DeleteInstanceWorker", "SetInstanceTagsWorker",
     "SetInstanceMetadataWorker"}

CloudWorkers == ReadOnlyWorkers \cup MutatingWorkers

ConnectWorker == "SSHConnectWorker"
ReadWorker == "SSHReadStdIOWorker"
SSHWorkers == {ConnectWorker, ReadWorker}

\* the client method each work() invokes first
ClientMethod(w) ==
    CASE w = "LoadInstanceListWorker" -> "list_instances"
      [] w = "LoadInstanceDetailsWorker" -> "get_instance"
      [] w = "CreateInstanceWorker" -> "create_instance"
      [] w = "StartInstanceWorker" -> "start_instance"
      [] w = "ResumeInstanceWorker" -> "resume_instance"
      [] w = "StopInstanceWorker" -> "stop_instance"
      [] w = "SuspendInstanceWorker" -> "suspend_instance"
      [] w = "ResetInstanceWorker" -> "reset_instance"
      [] w = "DeleteInstanceWorker" -> "delete_instance"
      [] w = "SetInstanceTagsWorker" -> "set_instance_tags"
      [] w = "SetInstanceMetadataWorker" -> "set_instance_metadata"
      [] w = "SSHConnectWorker" -> "connect"
      [] OTHER -> "readline"

\* the per-subclass signal emitted between the call and the wait
SubmittedSignal(w) ==
    CASE w = "CreateInstanceWorker" -> "created"
      [] w = "StartInstanceWorker" -> "started"
      [] w = "ResumeInstanceWorker" -> "resumed"
      [] w = "StopInstanceWorker" -> "stopped"
      [] w = "SuspendInstanceWorker" -> "suspended"
      [] w = "ResetInstanceWorker" -> "reset"
      [] w = "DeleteInstanceWorker" -> "deleted"
      [] w = "SetInstanceTagsWorker" -> "set"
      [] w = "SetInstanceMetadataWorker" -> "set"
      [] OTHER -> "none"

ProgressSignals ==
    {"created", "started", "resumed", "stopped", "suspended", "reset",
     "deleted", "set", "received"}

TerminalSignals == {"completed", "failed"}

(***************************************************************************)
(* Errors the collaborators raise, by class.                               *)
(***************************************************************************)
\* subclasses of google.api_core.exceptions.GoogleAPICallError
GoogleAPICallError == {"NotFound", "Forbidden"}
\* concurrent.futures.TimeoutError, raised by operation.result(timeout=...)
OperationTimeoutError == "TimeoutError"
\* an error of the cloud collaborator outside the GoogleAPICallError tree
\* (the REST transport lets requests.exceptions.ConnectionError through)
CloudOtherError == {"ConnectionError"}
\* what a client method can raise
CloudErrors == GoogleAPICallError \cup CloudOtherError

\* socket.error (OSError) and its subclasses
SocketError == {"socket.timeout"}
\* paramiko.SSHException and its subclasses
SSHException == {"SSHException"}
\* an error of the SSH collaborator outside both trees
SSHOtherError == {"UnicodeDecodeError"}
SSHErrors == SocketError \cup SSHException \cup SSHOtherError

NoError == "none"

(***************************************************************************)
(* Values handed around.                                                   *)
(***************************************************************************)
\* argument mappings passed to set_args; {} is the mapping of __init__
EmptyArgs == "{}"
ArgSets == {"args1", "args2"}
\* values a read-only remote call returns
ReturnValues == {"value1", "value2"}

\* a signal emission: its name, its payload, and for received the ordinal
\* of the chunk whose frame it carries (the frame itself is kept in frame)
Sig(n, v, k) == [name |-> n, val |-> v, chunk |-> k]
Completed(v) == Sig("completed", v, 0)
Failed(e) == Sig("failed", e, 0)
Progress(n) == Sig(n, "", 0)
Received(k) == Sig("received", "", k)

\* operation handle: status, and the error payload it carries on Error
HandleStatus == {"Pending", "Running", "Done", "Error"}
NoHandle == [status |-> "none", error |-> NoError]
Handle(s, e) == [status |-> s, error |-> e]

\* a second started worker: its class and where its thread is blocked
NoPeer == [worker |-> "none", pc |-> "idle"]
BlockedPeers ==
    {[worker |-> "StartInstanceWorker", pc |-> "call"],
     [worker |-> "StartInstanceWorker", pc |-> "waiting"],
     [worker |-> ReadWorker, pc |-> "read"]}

VARIABLES
    worker,      \* class of the worker whose thread is followed, "none" before any
    pc,          \* position of that thread
    args,        \* self.args
    signals,     \* signals emitted by the current submission, in emission order
    calls,       \* collaborator calls made by the current submission
    uncaught,    \* the exception that left run(), NoError if none did
    handle,      \* the operation handle returned by the mutating call
    timeout,     \* timeout argument of the wait in progress
    waited,      \* time units the wait in progress has lasted
    waitOutcome, \* how the last wait ended: "none", "returned", "raised"
    raised,      \* the error a collaborator call raised inside work(), NoError if none
    stdio,       \* the channel file: "open", "closed" by the local side, or "eof"
    line,        \* the chunk returned by the last readline
    reads,       \* number of non-empty chunks read by the current run
    screen,      \* the pyte Screen of work()
    stream,      \* the parser state of the pyte Stream of work()
    frame,       \* the str carried by the last received signal
    oneShot,     \* history: whether kept, and all the data fed by the current run
    window,      \* the SSH client window: "open" or "closed"
    button_password, \* isChecked() of the Password radio button
    button_key,  \* isChecked() of the Key radio button
    peer,        \* another started worker that stays blocked, NoPeer if there is none
    returned,    \* the value the read-only remote call returned, NoValue before
    handled,     \* whether the slot of the terminal signal has run
    previous,    \* history: worker and terminal signal of the submission before, had
                 \* it ended with one
    stack,       \* current widget of MainWindow.stack
    instances_client, \* GoogleCloudClient.default_client.instances_client
    page_loading, \* the LoadingPage overlay and its opacity animation
    blurred,     \* whether the blur of MainWindow.stack is on
    list_instances, \* names of the items of InstancePage.list_instances
    currentItem, \* list_instances.currentItem(), None if there is none
    instance,    \* InstancePage.instance
    widget_operations, \* isEnabled() of InstancePage.widget_operations
    enabled,     \* isEnabled() of the connect page of the SSH client window
    ssh_stack,   \* current widget of SSHClientWindow.stack
    window_ssh,  \* MenuBar.window_ssh: None, or the window it refers to
    later,       \* number of open SSH client windows constructed by later requests
    instance_tags, \* InstancePage.instance.tags.items
    tags,        \* SetInstanceTagsDialog.tags.items
    check_http_server,  \* isChecked() of the HTTP Server check box
    check_https_server, \* isChecked() of the HTTPS Server check box
    dialog       \* the set-tags dialog: "closed", "open" (in exec) or "accepted"

vars == <<worker, pc, args, signals, calls, uncaught, handle, timeout, waited,
          waitOutcome, raised, stdio, line, reads, screen, stream, frame,
          oneShot, window, button_password, button_key, peer, returned, handled,
          previous,
          stack, instances_client, page_loading, blurred, list_instances,
          currentItem, instance, widget_operations,
          enabled, ssh_stack, window_ssh, later,
          instance_tags, tags, check_http_server, check_https_server, dialog>>

cloudVars == <<handle, timeout, waited, waitOutcome, raised>>
sshVars == <<stdio, line, reads, screen, stream, frame, oneShot>>
surfaceVars == <<window, button_password, button_key, peer>>
slotVars == <<returned, handled, previous>>
pageVars == <<stack, instances_client, page_loading, blurred, list_instances,
              currentItem, instance, widget_operations>>
windowVars == <<enabled, ssh_stack, window_ssh, later>>
dialogVars == <<instance_tags, tags, check_http_server, check_https_server, dialog>>

Min(a, b) == IF a < b THEN a ELSE b
Max(a, b) == IF a > b THEN a ELSE b

\* number of signals of seq with a name in names; whether the last one has
Count(seq, names) == Cardinality({i \in DOMAIN seq : seq[i].name \in names})
IsLast(seq, names) == seq # <<>> /\ seq[Len(seq)].name \in names

(***************************************************************************)
(* The characters the channel delivers, and the chunks readline returns.   *)
(***************************************************************************)
LF == "LF"
CR == "CR"
ESC == "ESC"
SP == " "
\* characters of a line in front of its terminator: a letter, carriage
\* return, escape, and the three characters of the sequence ESC [ 2 H
BodyChars == {"x", CR, ESC, "[", "2", "H"}

Bodies == UNION {[1..n -> BodyChars] : n \in 0..MaxBody}
\* readline returns a line up to and including its "\n" ...
LineChunks == {b \o <<LF>> : b \in Bodies}
\* ... or, when the stream ends inside a line, the unterminated rest
TailChunks == Bodies \ {<<>>}

(***************************************************************************)
(* pyte.Screen: a character buffer and a cursor.  Auto-wrap (DECAWM) is    *)
(* set and new-line mode (LNM) is clear, as reset() leaves them.           *)
(***************************************************************************)
BlankRow == [i \in 1..ScreenColumns |-> SP]

Screen == [buffer |-> [r \in 1..ScreenLines |-> BlankRow], x |-> 0, y |-> 0]

carriage_return(s) == [s EXCEPT !.x = 0]

index(s) ==
    IF s.y = ScreenLines - 1
    THEN [s EXCEPT !.buffer = Append(Tail(s.buffer), BlankRow)]
    ELSE [s EXCEPT !.y = s.y + 1]

linefeed(s) == index(s)

draw(s, c) ==
    LET w == IF s.x = ScreenColumns THEN linefeed(carriage_return(s)) ELSE s
    IN  [w EXCEPT !.buffer[w.y + 1][w.x + 1] = c,
                  !.x = Min(w.x + 1, ScreenColumns)]

cursor_position(s, ln) ==
    LET l == (IF ln = 0 THEN 1 ELSE ln) - 1
    IN  [s EXCEPT !.x = 0, !.y = Min(Max(0, l), ScreenLines - 1)]

reset(s) == Screen

\* screen.display: the rows of the buffer, top to bottom
display(s) == s.buffer

(***************************************************************************)
(* pyte.Stream: the parser, a generator that lives as long as the stream.  *)
(***************************************************************************)
Stream == [state |-> "ground", current |-> 0]

\* one character through the parser; em = [screen, stream]
FeedChar(em, c) ==
    LET s == em.screen
        p == em.stream
    IN  CASE p.state = "ground" ->
                 IF c = ESC THEN [em EXCEPT !.stream.state = "escape"]
                 ELSE IF c = LF THEN [em EXCEPT !.screen = linefeed(s)]
                 ELSE IF c = CR THEN [em EXCEPT !.screen = carriage_return(s)]
                 ELSE [em EXCEPT !.screen = draw(s, c)]
          [] p.state = "escape" ->
                 IF c = "[" THEN [em EXCEPT !.stream = [state |-> "csi", current |-> 0]]
                 ELSE [em EXCEPT !.stream.state = "ground"]
          [] OTHER ->
                 IF c = "2" THEN [em EXCEPT !.stream.current = Min(p.current * 10 + 2, 9999)]
                 ELSE IF c = LF THEN [em EXCEPT !.screen = linefeed(s)]
                 ELSE IF c = CR THEN [em EXCEPT !.screen = carriage_return(s)]
                 ELSE IF c = "H" THEN [screen |-> cursor_position(s, p.current), stream |-> Stream]
                 ELSE [em EXCEPT !.stream = Stream]

RECURSIVE feed(_, _)
\* stream.feed(data)
feed(em, data) ==
    IF data = <<>> THEN em ELSE feed(FeedChar(em, Head(data)), Tail(data))

(***************************************************************************)
(* "\n".join(screen.display).strip()                                       *)
(***************************************************************************)
RECURSIVE join(_)
join(rows) ==
    IF Len(rows) = 0 THEN <<>>
    ELSE IF Len(rows) = 1 THEN rows[1]
    ELSE rows[1] \o <<LF>> \o join(Tail(rows))

Whitespace == {SP, LF}

RECURSIVE lstrip(_)
lstrip(str) ==
    IF str # <<>> /\ Head(str) \in Whitespace THEN lstrip(Tail(str)) ELSE str

RECURSIVE rstrip(_)
rstrip(str) ==
    IF str # <<>> /\ str[Len(str)] \in Whitespace
    THEN rstrip(SubSeq(str, 1, Len(str) - 1))
    ELSE str

strip(str) == rstrip(lstrip(str))

Frame(s) == strip(join(display(s)))

\* a call on a remote collaborator and the thread that executes it: "worker"
\* for the QThread of a worker, "surface" for the thread of the Qt event loop
Call(fn, a, t) == [fn |-> fn, args |-> a, thread |-> t]

(***************************************************************************)
(* Initial state: the workers are constructed, none is started.            *)
(***************************************************************************)
\* Python's None
None == "None"

\* no value returned yet
NoValue == "none"

\* self.instance = None
NoInstance == [name |-> None, complete |-> FALSE]

\* no submission before, or one that ended without a terminal signal
NoPrevious == [worker |-> "none", last |-> "none"]

\* the GoogleCloudClient objects: the shared default one, and any other
Clients == {"default_client", "GoogleCloudClient()"}

\* the client of the connect page: GoogleCloudClient.default_client
ConnectPageClient == "default_client"

\* the client of every worker of init_workers, which passes none:
\* google_cloud_client or GoogleCloudClient.default_client
WorkerClient == "default_client"

(***************************************************************************)
(* SetInstanceTagsDialog                                                   *)
(***************************************************************************)
\* the longest tags.items of an instance
MaxTags == 2

TagNames == {"http-server", "https-server", "ssh", "web"}
\* the lists tags.items of an instance can be
TagLists == UNION {[1..n -> TagNames] : n \in 0..MaxTags}

\* x in items
contains(items, x) == \E i \in DOMAIN items : items[i] = x

\* items.remove(x) of a list that contains x: the first x is taken out
remove(items, x) ==
    LET first == CHOOSE i \in DOMAIN items :
                     items[i] = x /\ \A j \in 1..(i - 1) : items[j] # x
    IN  SubSeq(items, 1, first - 1) \o SubSeq(items, first + 1, Len(items))

\* what button_set_clicked leaves in self.tags.items
set_items(items, http, https) ==
    LET a == IF contains(items, "http-server") THEN remove(items, "http-server") ELSE items
        b == IF contains(a, "https-server") THEN remove(a, "https-server") ELSE a
        c == IF http THEN Append(b, "http-server") ELSE b
    IN  IF https THEN Append(c, "https-server") ELSE c

\* SetInstanceTagsDialog.__init__: self.tags = None (no items), both check
\* boxes unchecked; no dialog is shown before the button is clicked
SetInstanceTagsDialog ==
    /\ tags = <<>>
    /\ check_http_server = FALSE
    /\ check_https_server = FALSE
    /\ dialog = "closed"

\* MainWindow.init_widgets: the overlay is hidden, its QGraphicsOpacityEffect
\* is new (Qt's default opacity is 0.7; the opacities told apart are "0.0",
\* "between" and "1.0"), the connect page is the current
\* widget of the stack; InstancePage.__init__: instance = None, the list is
\* empty, widget_operations.setDisabled(True); cloud.py: instances_client = None
MainWindow ==
    /\ stack = "page_connect"
    /\ instances_client = [c \in Clients |-> None]
    /\ page_loading = [visible |-> FALSE, opacity |-> "between", running |-> FALSE,
                       end |-> "between", connected |-> FALSE]
    /\ blurred = FALSE
    /\ list_instances = {}
    /\ currentItem = None
    /\ instance = NoInstance
    /\ widget_operations = FALSE

Constructed ==
    /\ worker = "none"
    /\ pc = "idle"
    /\ args = EmptyArgs
    /\ signals = <<>>
    /\ calls = <<>>
    /\ uncaught = NoError
    /\ handle = NoHandle
    /\ timeout = 0
    /\ waited = 0
    /\ waitOutcome = "none"
    /\ raised = NoError
    /\ stdio = "open"
    /\ line = <<>>
    /\ reads = 0
    /\ screen = Screen
    /\ stream = Stream
    /\ frame = <<>>
    /\ window = "open"
    /\ button_password = TRUE
    /\ button_key = FALSE
    /\ peer = NoPeer
    /\ enabled = TRUE
    /\ ssh_stack = "page_connect"
    /\ window_ssh = "first"
    /\ later = 0
    /\ SetInstanceTagsDialog
    /\ returned = NoValue
    /\ handled = FALSE
    /\ previous = NoPrevious
    /\ MainWindow

Init == Constructed /\ oneShot = [on |-> FALSE, data |-> <<>>] /\ instance_tags = <<>>

\* the state every start() begins from: nothing emitted, the locals of
\* work() (screen, stream) as their constructors make them; calls is set by
\* the handler that starts the worker
Started(w, a) ==
    /\ pc \in {"idle", "finished"}
    /\ worker' = w
    /\ args' = a
    /\ signals' = <<>>
    /\ uncaught' = NoError
    /\ handle' = NoHandle
    /\ timeout' = 0
    /\ waited' = 0
    /\ waitOutcome' = "none"
    /\ raised' = NoError
    /\ line' = <<>>
    /\ reads' = 0
    /\ stdio' = "open"
    /\ screen' = Screen
    /\ stream' = Stream
    /\ frame' = <<>>
    /\ oneShot' = [oneShot EXCEPT !.data = <<>>]
    /\ returned' = NoValue
    /\ handled' = FALSE
    /\ previous' = IF oneShot.on /\ Count(signals, TerminalSignals) = 1
                   THEN [worker |-> worker, last |-> signals[Len(signals)].name]
                   ELSE NoPrevious
    /\ UNCHANGED surfaceVars

(***************************************************************************)
(* GoogleCloudWorker                                                       *)
(***************************************************************************)
\* worker.set_args({...}); worker.start() of an InstancePage handler
Submit(w, a) ==
    /\ w \in CloudWorkers
    /\ Started(w, a)
    /\ UNCHANGED windowVars
    /\ UNCHANGED dialogVars
    /\ calls' = <<>>
    /\ pc' = "work"
    /\ UNCHANGED pageVars

\* button_list_instances_clicked / list_instances_item_changed delivered
\* while the worker they submit to is still running (the handlers test
\* nothing): set_args replaces self.args, and start() does nothing on a
\* QThread that is running
Resubmit(w, a) ==
    /\ w \in ReadOnlyWorkers
    /\ worker = w
    /\ pc \in {"work", "call"}
    /\ args' = a
    /\ UNCHANGED <<worker, pc, signals, calls, uncaught>>
    /\ UNCHANGED cloudVars
    /\ UNCHANGED sshVars
    /\ UNCHANGED surfaceVars
    /\ UNCHANGED windowVars
    /\ UNCHANGED dialogVars
    /\ UNCHANGED slotVars
    /\ UNCHANGED pageVars

\* start() of another worker object, whose thread then blocks for good in
\* its remote call, in the wait on its operation, or in readline
PeerBlocks(p) ==
    /\ peer = NoPeer
    /\ pc = "idle"
    /\ p \in BlockedPeers
    /\ peer' = p
    /\ UNCHANGED <<worker, pc, args, signals, calls, uncaught>>
    /\ UNCHANGED <<window, button_password, button_key>>
    /\ UNCHANGED windowVars
    /\ UNCHANGED dialogVars
    /\ UNCHANGED slotVars
    /\ UNCHANGED pageVars
    /\ UNCHANGED cloudVars
    /\ UNCHANGED sshVars

\* workers that are tasks of one shared context: the call of a started
\* worker begins only when no other worker occupies the context
RemoteCall_SharedContext ==
    /\ peer = NoPeer
    /\ pc = "work"
    /\ worker \in CloudWorkers \cup {ConnectWorker}
    /\ calls' = Append(calls, Call(ClientMethod(worker), args, "worker"))
    /\ pc' = "call"
    /\ UNCHANGED <<worker, args, signals, uncaught>>
    /\ UNCHANGED cloudVars
    /\ UNCHANGED sshVars
    /\ UNCHANGED surfaceVars
    /\ UNCHANGED windowVars
    /\ UNCHANGED dialogVars
    /\ UNCHANGED slotVars
    /\ UNCHANGED pageVars

\* the thread of a started worker (every worker is a QThread of its own)
\* reaches the first remote call of work(): the arguments are read from
\* self.args now (**self.args), the call blocks
RemoteCall ==
    /\ pc = "work"
    /\ worker \in CloudWorkers \cup {ConnectWorker}
    /\ calls' = Append(calls, Call(ClientMethod(worker), args, "worker"))
    /\ pc' = "call"
    /\ UNCHANGED <<worker, args, signals, uncaught>>
    /\ UNCHANGED cloudVars
    /\ UNCHANGED sshVars
    /\ UNCHANGED surfaceVars
    /\ UNCHANGED windowVars
    /\ UNCHANGED dialogVars
    /\ UNCHANGED slotVars
    /\ UNCHANGED pageVars

\* run() with an except clause that swallows the error: except ...: pass
GoogleCloudWorker_run_Swallows(e) ==
    /\ pc' = "finished"
    /\ signals' = signals
    /\ uncaught' = NoError

\* run() that emits an error of its own in place of the one it caught:
\* except GoogleAPICallError as e: self.failed.emit(WorkerError(str(e)))
GoogleCloudWorker_run_Wraps(e) ==
    /\ pc' = "finished"
    /\ IF e \in GoogleAPICallError
       THEN signals' = Append(signals, Failed("WorkerError")) /\ uncaught' = NoError
       ELSE signals' = signals /\ uncaught' = e

\* run(): try: self.work()  except GoogleAPICallError as e: self.failed.emit(e)
GoogleCloudWorker_run(e) ==
    /\ pc' = "finished"
    /\ IF e \in GoogleAPICallError
       THEN signals' = Append(signals, Failed(e)) /\ uncaught' = NoError
       ELSE signals' = signals /\ uncaught' = e

\* a read-only work() that reports success the way the mutating ones do:
\* self.completed.emit(True)
ReadOnlyCallReturns_EmitsTrue(v) ==
    /\ pc = "call"
    /\ worker \in ReadOnlyWorkers
    /\ signals' = Append(signals, Completed("True"))
    /\ pc' = "finished"
    /\ UNCHANGED <<worker, args, calls, uncaught>>
    /\ UNCHANGED cloudVars
    /\ UNCHANGED sshVars
    /\ UNCHANGED surfaceVars
    /\ UNCHANGED windowVars
    /\ UNCHANGED dialogVars
    /\ returned' = v
    /\ UNCHANGED <<handled, previous>>
    /\ UNCHANGED pageVars

\* LoadInstanceListWorker.work / LoadInstanceDetailsWorker.work, call returns
ReadOnlyCallReturns(v) ==
    /\ pc = "call"
    /\ worker \in ReadOnlyWorkers
    /\ signals' = Append(signals, Completed(v))
    /\ pc' = "finished"
    /\ UNCHANGED <<worker, args, calls, uncaught>>
    /\ UNCHANGED cloudVars
    /\ UNCHANGED sshVars
    /\ UNCHANGED surfaceVars
    /\ UNCHANGED windowVars
    /\ UNCHANGED dialogVars
    /\ returned' = v
    /\ UNCHANGED <<handled, previous>>
    /\ UNCHANGED pageVars

\* a mutating work() that forgets to emit its subclass signal
MutatingCallReturns_NoSubmitted(h) ==
    /\ pc = "call"
    /\ worker \in MutatingWorkers
    /\ calls' = Append(calls, Call("wait_for_extended_operation", "operation", "worker"))
    /\ handle' = h
    /\ signals' = signals
    /\ timeout' = DefaultTimeout
    /\ waited' = 0
    /\ pc' = "waiting"
    /\ UNCHANGED <<worker, args, uncaught, waitOutcome, raised>>
    /\ UNCHANGED sshVars
    /\ UNCHANGED surfaceVars
    /\ UNCHANGED windowVars
    /\ UNCHANGED dialogVars
    /\ UNCHANGED slotVars
    /\ UNCHANGED pageVars

\* a mutating work() that passes a timeout of its own to the waiter:
\* wait_for_extended_operation(operation, 2 * 300)
MutatingCallReturns_LongerWait(h) ==
    /\ pc = "call"
    /\ worker \in MutatingWorkers
    /\ calls' = Append(calls, Call("wait_for_extended_operation", "operation", "worker"))
    /\ handle' = h
    /\ signals' = Append(signals, Progress(SubmittedSignal(worker)))
    /\ timeout' = 2 * DefaultTimeout
    /\ waited' = 0
    /\ pc' = "waiting"
    /\ UNCHANGED <<worker, args, uncaught, waitOutcome, raised>>
    /\ UNCHANGED sshVars
    /\ UNCHANGED surfaceVars
    /\ UNCHANGED windowVars
    /\ UNCHANGED dialogVars
    /\ UNCHANGED slotVars
    /\ UNCHANGED pageVars

\* the nine mutating work(): the call returns an operation handle, the
\* subclass signal is emitted and the wait on the handle begins
MutatingCallReturns(h) ==
    /\ pc = "call"
    /\ worker \in MutatingWorkers
    /\ calls' = Append(calls, Call("wait_for_extended_operation", "operation", "worker"))
    /\ handle' = h
    /\ signals' = Append(signals, Progress(SubmittedSignal(worker)))
    /\ timeout' = DefaultTimeout
    /\ waited' = 0
    /\ pc' = "waiting"
    /\ UNCHANGED <<worker, args, uncaught, waitOutcome, raised>>
    /\ UNCHANGED sshVars
    /\ UNCHANGED surfaceVars
    /\ UNCHANGED windowVars
    /\ UNCHANGED dialogVars
    /\ UNCHANGED slotVars
    /\ UNCHANGED pageVars

\* the first remote call of a cloud work() raises
CloudCallRaises(e) ==
    /\ pc = "call"
    /\ worker \in CloudWorkers
    /\ raised' = e
    /\ GoogleCloudWorker_run(e)
    /\ UNCHANGED <<worker, args, calls, handle, timeout, waited, waitOutcome>>
    /\ UNCHANGED sshVars
    /\ UNCHANGED surfaceVars
    /\ UNCHANGED windowVars
    /\ UNCHANGED dialogVars
    /\ UNCHANGED slotVars
    /\ UNCHANGED pageVars

(***************************************************************************)
(* GoogleCloudClient.wait_for_extended_operation                           *)
(***************************************************************************)
\* operation.result(timeout=t) seen after w time units of waiting: it
\* returns on Done, raises the operation's error on Error, raises
\* concurrent.futures.TimeoutError once t has elapsed, blocks otherwise
OperationResult(h, w, t) ==
    IF h.status = "Done" THEN [kind |-> "return", error |-> NoError]
    ELSE IF h.status = "Error" THEN [kind |-> "raise", error |-> h.error]
    ELSE IF w >= t THEN [kind |-> "raise", error |-> OperationTimeoutError]
    ELSE [kind |-> "block", error |-> NoError]

\* a wait that ignores its timeout argument: operation.result(timeout=300)
wait_for_extended_operation_FixedTimeout(operation, t) ==
    OperationResult(operation, waited, DefaultTimeout)

\* return operation.result(timeout=timeout)
wait_for_extended_operation(operation, t) == OperationResult(operation, waited, t)

\* the remote operation proceeds, whoever waits or has stopped waiting
OperationProceeds(st, e) ==
    /\ handle.status \in {"Pending", "Running"}
    /\ st \in {"Running", "Done", "Error"}
    /\ st # handle.status
    /\ (st = "Error") = (e # NoError)
    /\ handle' = Handle(st, e)
    /\ UNCHANGED <<worker, pc, args, signals, calls, uncaught, timeout, waited,
                   waitOutcome, raised>>
    /\ UNCHANGED sshVars
    /\ UNCHANGED surfaceVars
    /\ UNCHANGED windowVars
    /\ UNCHANGED dialogVars
    /\ UNCHANGED slotVars
    /\ UNCHANGED pageVars

\* one time unit passes in the blocked wait
WaitBlocks ==
    /\ pc = "waiting"
    /\ wait_for_extended_operation(handle, timeout).kind = "block"
    /\ waited' = waited + 1
    /\ UNCHANGED <<worker, pc, args, signals, calls, uncaught, handle, timeout,
                   waitOutcome, raised>>
    /\ UNCHANGED sshVars
    /\ UNCHANGED surfaceVars
    /\ UNCHANGED windowVars
    /\ UNCHANGED dialogVars
    /\ UNCHANGED slotVars
    /\ UNCHANGED pageVars

\* the wait returns inside work(): self.completed.emit(True)
WaitReturns ==
    /\ pc = "waiting"
    /\ worker \in MutatingWorkers
    /\ wait_for_extended_operation(handle, timeout).kind = "return"
    /\ waitOutcome' = "returned"
    /\ signals' = Append(signals, Completed("True"))
    /\ pc' = "finished"
    /\ UNCHANGED <<worker, args, calls, uncaught, handle, timeout, waited, raised>>
    /\ UNCHANGED sshVars
    /\ UNCHANGED surfaceVars
    /\ UNCHANGED windowVars
    /\ UNCHANGED dialogVars
    /\ UNCHANGED slotVars
    /\ UNCHANGED pageVars

\* the wait raises inside work()
WaitRaises ==
    /\ pc = "waiting"
    /\ worker \in MutatingWorkers
    /\ wait_for_extended_operation(handle, timeout).kind = "raise"
    /\ waitOutcome' = "raised"
    /\ raised' = wait_for_extended_operation(handle, timeout).error
    /\ GoogleCloudWorker_run(wait_for_extended_operation(handle, timeout).error)
    /\ UNCHANGED <<worker, args, calls, handle, timeout, waited>>
    /\ UNCHANGED sshVars
    /\ UNCHANGED surfaceVars
    /\ UNCHANGED windowVars
    /\ UNCHANGED dialogVars
    /\ UNCHANGED slotVars
    /\ UNCHANGED pageVars

(***************************************************************************)
(* SSHWorker                                                               *)
(***************************************************************************)
\* run() whose except clause names SSHException only
SSHWorker_run_OnlySSHException(e) ==
    /\ pc' = "finished"
    /\ IF e \in SSHException
       THEN signals' = Append(signals, Failed(e)) /\ uncaught' = NoError
       ELSE signals' = signals /\ uncaught' = e

\* run(): try: self.work()  except (socket.error, SSHException) as e: ...
SSHWorker_run(e) ==
    /\ pc' = "finished"
    /\ IF e \in SocketError \cup SSHException
       THEN signals' = Append(signals, Failed(e)) /\ uncaught' = NoError
       ELSE signals' = signals /\ uncaught' = e

\* SSHConnectWorker.work: connect returns
ConnectReturns ==
    /\ pc = "call"
    /\ worker = ConnectWorker
    /\ signals' = Append(signals, Completed("True"))
    /\ pc' = "finished"
    /\ UNCHANGED <<worker, args, calls, uncaught>>
    /\ UNCHANGED cloudVars
    /\ UNCHANGED sshVars
    /\ UNCHANGED surfaceVars
    /\ UNCHANGED windowVars
    /\ UNCHANGED dialogVars
    /\ UNCHANGED slotVars
    /\ UNCHANGED pageVars

\* SSHConnectWorker.work: connect raises
ConnectRaises(e) ==
    /\ pc = "call"
    /\ worker = ConnectWorker
    /\ raised' = e
    /\ SSHWorker_run(e)
    /\ UNCHANGED <<worker, args, calls, handle, timeout, waited, waitOutcome>>
    /\ UNCHANGED sshVars
    /\ UNCHANGED surfaceVars
    /\ UNCHANGED windowVars
    /\ UNCHANGED dialogVars
    /\ UNCHANGED slotVars
    /\ UNCHANGED pageVars

(***************************************************************************)
(* SSHClientWindow.ConnectPage                                             *)
(***************************************************************************)
\* "timeout": 5, "banner_timeout": 5, "auth_timeout": 5, "channel_timeout": 5
ConnectTimeout == 5

\* texts of input_host and input_username, as character sequences
NameTexts == {<<>>, <<"h">>, <<"h", "h">>, <<"h", SP>>}
\* texts of input_password and of input_key
PasswordTexts == {"", "pw"}
KeyTexts == {"", "id_rsa"}

\* QRegularExpressionValidator("^\\S+$").validate(text, 0) is Acceptable
Acceptable(text) ==
    /\ text # <<>>
    /\ \A i \in DOMAIN text : text[i] \notin Whitespace

\* a click on a radio button of the exclusive QButtonGroup group_auth: the
\* clicked button is checked, the other one unchecked; the page takes no
\* click while it is disabled or behind the command page
group_auth_clicked(b) ==
    /\ window = "open"
    /\ enabled
    /\ ssh_stack = "page_connect"
    /\ b \in {"button_password", "button_key"}
    /\ button_password' = (b = "button_password")
    /\ button_key' = (b = "button_key")
    /\ UNCHANGED <<worker, pc, args, signals, calls, uncaught, window, peer>>
    /\ UNCHANGED windowVars
    /\ UNCHANGED dialogVars
    /\ UNCHANGED slotVars
    /\ UNCHANGED pageVars
    /\ UNCHANGED cloudVars
    /\ UNCHANGED sshVars

\* a handler that passes both texts whatever the radio buttons say
button_connect_clicked_BothTexts(host, username, password, key) ==
    /\ window = "open"
    /\ enabled
    /\ ssh_stack = "page_connect"
    /\ Acceptable(host)
    /\ Acceptable(username)
    /\ enabled' = FALSE
    /\ Started(ConnectWorker,
               [hostname |-> host, username |-> username,
                password |-> password, key_filename |-> key,
                timeout |-> ConnectTimeout, banner_timeout |-> ConnectTimeout,
                auth_timeout |-> ConnectTimeout, channel_timeout |-> ConnectTimeout])
    /\ calls' = <<>>
    /\ pc' = "work"
    /\ UNCHANGED <<ssh_stack, window_ssh, later>>
    /\ UNCHANGED dialogVars
    /\ UNCHANGED pageVars

\* button_connect_clicked: returns after a warning unless host and username
\* are acceptable, else disables the page, set_args({...}), start()
button_connect_clicked(host, username, password, key) ==
    /\ window = "open"
    /\ enabled
    /\ ssh_stack = "page_connect"
    /\ Acceptable(host)
    /\ Acceptable(username)
    /\ enabled' = FALSE
    /\ Started(ConnectWorker,
               [hostname |-> host, username |-> username,
                password |-> IF button_password THEN password ELSE None,
                key_filename |-> IF button_key THEN key ELSE None,
                timeout |-> ConnectTimeout, banner_timeout |-> ConnectTimeout,
                auth_timeout |-> ConnectTimeout, channel_timeout |-> ConnectTimeout])
    /\ calls' = <<>>
    /\ pc' = "work"
    /\ UNCHANGED <<ssh_stack, window_ssh, later>>
    /\ UNCHANGED dialogVars
    /\ UNCHANGED pageVars

\* worker_connect.set_args({...}); worker_connect.start() on their own, the
\* surface of the window left as it is
SubmitConnect(host, username, password, key) ==
    /\ Acceptable(host)
    /\ Acceptable(username)
    /\ Started(ConnectWorker,
               [hostname |-> host, username |-> username,
                password |-> IF button_password THEN password ELSE None,
                key_filename |-> IF button_key THEN key ELSE None,
                timeout |-> ConnectTimeout, banner_timeout |-> ConnectTimeout,
                auth_timeout |-> ConnectTimeout, channel_timeout |-> ConnectTimeout])
    /\ calls' = <<>>
    /\ pc' = "work"
    /\ UNCHANGED windowVars
    /\ UNCHANGED dialogVars
    /\ UNCHANGED pageVars

(***************************************************************************)
(* SSHReadStdIOWorker                                                      *)
(***************************************************************************)
\* update_workers, run by the thread of the event loop: channel =
\* ssh_client.invoke_shell(); stdio = channel.makefile(); start(); then the
\* first two statements of work(): screen = Screen(256, 24); stream =
\* Stream(screen)
update_workers ==
    /\ window = "open"
    /\ Started(ReadWorker, EmptyArgs)
    /\ calls' = <<Call("invoke_shell", EmptyArgs, "surface")>>
    /\ pc' = "read"
    /\ UNCHANGED pageVars

\* update_workers on its own, the surface of the window left as it is
StartReadLoop ==
    /\ update_workers
    /\ UNCHANGED windowVars
    /\ UNCHANGED dialogVars

\* ssh_client_connected, the slot of the connect worker's completed signal:
\* page_command.update_workers(), then stack.setCurrentWidget(page_command)
ssh_client_connected ==
    /\ worker = ConnectWorker
    /\ pc = "finished"
    /\ signals = <<Completed("True")>>
    /\ update_workers
    /\ ssh_stack' = "page_command"
    /\ UNCHANGED <<enabled, window_ssh, later>>
    /\ UNCHANGED dialogVars

\* ConnectPage.handle_worker_exception, the slot of the connect worker's
\* failed signal: a message box, then self.setEnabled(True)
connect_handle_worker_exception ==
    /\ worker = ConnectWorker
    /\ pc = "finished"
    /\ IsLast(signals, {"failed"})
    /\ ~handled
    /\ handled' = TRUE
    /\ enabled' = TRUE
    /\ UNCHANGED <<worker, pc, args, signals, calls, uncaught>>
    /\ UNCHANGED cloudVars
    /\ UNCHANGED sshVars
    /\ UNCHANGED surfaceVars
    /\ UNCHANGED <<returned, previous>>
    /\ UNCHANGED <<ssh_stack, window_ssh, later>>
    /\ UNCHANGED dialogVars
    /\ UNCHANGED pageVars

\* button_execute_clicked, run by the thread of the event loop:
\* self.channel.send(command.encode())
button_execute_clicked ==
    /\ window = "open"
    /\ worker = ReadWorker
    /\ Cardinality({i \in DOMAIN calls : calls[i].fn = "send"}) < MaxSends
    /\ calls' = Append(calls, Call("send", "command", "surface"))
    /\ UNCHANGED <<worker, pc, args, signals, uncaught>>
    /\ UNCHANGED cloudVars
    /\ UNCHANGED sshVars
    /\ UNCHANGED surfaceVars
    /\ UNCHANGED windowVars
    /\ UNCHANGED dialogVars
    /\ UNCHANGED slotVars
    /\ UNCHANGED pageVars

\* SSHClientWindow.closeEvent: self.ssh_client.close() closes the transport
\* and with it the channel of a running read loop: no more data arrives, a
\* readline returns the unterminated rest it has buffered, then ""; then
\* Window.closeEvent emits closed, whose slot sets MenuBar.window_ssh to None
closeEvent ==
    /\ window = "open"
    /\ window' = "closed"
    /\ window_ssh' = None
    /\ UNCHANGED <<enabled, ssh_stack, later>>
    /\ UNCHANGED dialogVars
    /\ stdio' = IF worker = ReadWorker /\ pc # "finished" /\ stdio = "open"
                THEN "closed" ELSE stdio
    /\ UNCHANGED <<worker, pc, args, signals, calls, uncaught>>
    /\ UNCHANGED <<line, reads, screen, stream, frame, oneShot>>
    /\ UNCHANGED <<button_password, button_key, peer>>
    /\ UNCHANGED slotVars
    /\ UNCHANGED pageVars
    /\ UNCHANGED cloudVars

\* ssh_client_session_closed, the slot of the read loop's completed signal:
\* if self.parent.isActiveWindow(): a warning box, then self.parent.close();
\* nothing otherwise
ssh_client_session_closed(active) ==
    /\ worker = ReadWorker
    /\ pc = "finished"
    /\ IsLast(signals, {"completed"})
    /\ ~handled
    /\ active \in BOOLEAN
    /\ active => window = "open"
    /\ handled' = TRUE
    /\ window' = IF active THEN "closed" ELSE window
    /\ window_ssh' = IF active THEN None ELSE window_ssh
    /\ UNCHANGED <<enabled, ssh_stack, later>>
    /\ UNCHANGED dialogVars
    /\ UNCHANGED <<worker, pc, args, signals, calls, uncaught>>
    /\ UNCHANGED cloudVars
    /\ UNCHANGED sshVars
    /\ UNCHANGED <<button_password, button_key, peer, returned, previous>>
    /\ UNCHANGED pageVars

\* CommandPage.handle_worker_exception, the slot of the read loop's failed
\* signal: a message box, then self.parent.close()
command_handle_worker_exception ==
    /\ worker = ReadWorker
    /\ pc = "finished"
    /\ IsLast(signals, {"failed"})
    /\ ~handled
    /\ handled' = TRUE
    /\ window' = "closed"
    /\ window_ssh' = None
    /\ UNCHANGED <<enabled, ssh_stack, later>>
    /\ UNCHANGED dialogVars
    /\ UNCHANGED <<worker, pc, args, signals, calls, uncaught>>
    /\ UNCHANGED cloudVars
    /\ UNCHANGED sshVars
    /\ UNCHANGED <<button_password, button_key, peer, returned, previous>>
    /\ UNCHANGED pageVars

(***************************************************************************)
(* MenuBar: the SSH client windows                                         *)
(***************************************************************************)
\* the most SSH client windows of later requests followed at a time
MaxWindows == 2

\* number of SSH client windows that are open
OpenWindows == (IF window = "open" THEN 1 ELSE 0) + later

\* show_ssh_client_window: returns if self.window_ssh exists and is not
\* None; else constructs an SSHClientWindow, connects its closed signal to
\* the lambda that sets self.window_ssh to None, and shows it
show_ssh_client_window ==
    /\ window_ssh = None
    /\ later < MaxWindows
    /\ later' = later + 1
    /\ window_ssh' = "later"
    /\ UNCHANGED <<enabled, ssh_stack>>
    /\ UNCHANGED dialogVars
    /\ UNCHANGED <<worker, pc, args, signals, calls, uncaught>>
    /\ UNCHANGED cloudVars
    /\ UNCHANGED sshVars
    /\ UNCHANGED surfaceVars
    /\ UNCHANGED slotVars
    /\ UNCHANGED pageVars

\* closeEvent of a window of a later request: its client is closed and
\* closed is emitted, whose slot sets self.window_ssh to None
later_closeEvent ==
    /\ later > 0
    /\ later' = later - 1
    /\ window_ssh' = None
    /\ UNCHANGED <<enabled, ssh_stack>>
    /\ UNCHANGED dialogVars
    /\ UNCHANGED <<worker, pc, args, signals, calls, uncaught>>
    /\ UNCHANGED cloudVars
    /\ UNCHANGED sshVars
    /\ UNCHANGED surfaceVars
    /\ UNCHANGED slotVars
    /\ UNCHANGED pageVars

\* line = self.stdio.readline() returns a non-empty chunk
ReadLine(chunk) ==
    /\ pc = "read"
    /\ worker = ReadWorker
    /\ stdio \in {"open", "closed"}
    /\ reads < MaxReads
    /\ chunk \in (IF stdio = "open" THEN LineChunks ELSE {}) \cup TailChunks
    /\ line' = chunk
    /\ reads' = reads + 1
    /\ stdio' = IF chunk \in LineChunks THEN "open" ELSE "eof"
    /\ pc' = "feed"
    /\ UNCHANGED <<worker, args, signals, calls, uncaught, screen, stream, frame, oneShot>>
    /\ UNCHANGED cloudVars
    /\ UNCHANGED surfaceVars
    /\ UNCHANGED windowVars
    /\ UNCHANGED dialogVars
    /\ UNCHANGED slotVars
    /\ UNCHANGED pageVars

\* a loop that breaks on "" and forgets the emission after it
ReadEOF_NoCompleted ==
    /\ pc = "read"
    /\ worker = ReadWorker
    /\ line' = <<>>
    /\ stdio' = "eof"
    /\ signals' = signals
    /\ pc' = "finished"
    /\ UNCHANGED <<worker, args, calls, uncaught, reads, screen, stream, frame, oneShot>>
    /\ UNCHANGED cloudVars
    /\ UNCHANGED surfaceVars
    /\ UNCHANGED windowVars
    /\ UNCHANGED dialogVars
    /\ UNCHANGED slotVars
    /\ UNCHANGED pageVars

\* readline returns "": if not line: break; self.completed.emit(True)
ReadEOF ==
    /\ pc = "read"
    /\ worker = ReadWorker
    /\ line' = <<>>
    /\ stdio' = "eof"
    /\ signals' = Append(signals, Completed("True"))
    /\ pc' = "finished"
    /\ UNCHANGED <<worker, args, calls, uncaught, reads, screen, stream, frame, oneShot>>
    /\ UNCHANGED cloudVars
    /\ UNCHANGED surfaceVars
    /\ UNCHANGED windowVars
    /\ UNCHANGED dialogVars
    /\ UNCHANGED slotVars
    /\ UNCHANGED pageVars

\* readline raises
ReadRaises(e) ==
    /\ pc = "read"
    /\ worker = ReadWorker
    /\ stdio \in {"open", "closed"}
    /\ raised' = e
    /\ SSHWorker_run(e)
    /\ UNCHANGED <<worker, args, calls, handle, timeout, waited, waitOutcome>>
    /\ UNCHANGED sshVars
    /\ UNCHANGED surfaceVars
    /\ UNCHANGED windowVars
    /\ UNCHANGED dialogVars
    /\ UNCHANGED slotVars
    /\ UNCHANGED pageVars

\* stream.feed(line)
FeedLine ==
    /\ pc = "feed"
    /\ LET em == feed([screen |-> screen, stream |-> stream], line)
       IN  screen' = em.screen /\ stream' = em.stream
    /\ oneShot' = IF oneShot.on THEN [oneShot EXCEPT !.data = @ \o line] ELSE oneShot
    /\ pc' = "emit"
    /\ UNCHANGED <<worker, args, signals, calls, uncaught, stdio, line, reads, frame>>
    /\ UNCHANGED cloudVars
    /\ UNCHANGED surfaceVars
    /\ UNCHANGED windowVars
    /\ UNCHANGED dialogVars
    /\ UNCHANGED slotVars
    /\ UNCHANGED pageVars

\* a loop that resets the screen before it renders the frame
EmitFrame_AfterReset ==
    /\ pc = "emit"
    /\ frame' = Frame(reset(screen))
    /\ signals' = Append(signals, Received(reads))
    /\ pc' = "reset"
    /\ UNCHANGED <<worker, args, calls, uncaught, stdio, line, reads, screen, stream, oneShot>>
    /\ UNCHANGED cloudVars
    /\ UNCHANGED surfaceVars
    /\ UNCHANGED windowVars
    /\ UNCHANGED dialogVars
    /\ UNCHANGED slotVars
    /\ UNCHANGED pageVars

\* a loop that emits a frame only when it is not empty
EmitFrame_SkipEmpty ==
    /\ pc = "emit"
    /\ frame' = IF Frame(screen) # <<>> THEN Frame(screen) ELSE frame
    /\ signals' = IF Frame(screen) # <<>> THEN Append(signals, Received(reads)) ELSE signals
    /\ pc' = "reset"
    /\ UNCHANGED <<worker, args, calls, uncaught, stdio, line, reads, screen, stream, oneShot>>
    /\ UNCHANGED cloudVars
    /\ UNCHANGED surfaceVars
    /\ UNCHANGED windowVars
    /\ UNCHANGED dialogVars
    /\ UNCHANGED slotVars
    /\ UNCHANGED pageVars

\* self.received.emit("\n".join(screen.display).strip())
EmitFrame ==
    /\ pc = "emit"
    /\ frame' = Frame(screen)
    /\ signals' = Append(signals, Received(reads))
    /\ pc' = "reset"
    /\ UNCHANGED <<worker, args, calls, uncaught, stdio, line, reads, screen, stream, oneShot>>
    /\ UNCHANGED cloudVars
    /\ UNCHANGED surfaceVars
    /\ UNCHANGED windowVars
    /\ UNCHANGED dialogVars
    /\ UNCHANGED slotVars
    /\ UNCHANGED pageVars

\* screen.reset()
ResetScreen ==
    /\ pc = "reset"
    /\ screen' = reset(screen)
    /\ pc' = "read"
    /\ UNCHANGED <<worker, args, signals, calls, uncaught, stdio, line, reads, stream,
                   frame, oneShot>>
    /\ UNCHANGED cloudVars
    /\ UNCHANGED surfaceVars
    /\ UNCHANGED windowVars
    /\ UNCHANGED dialogVars
    /\ UNCHANGED slotVars
    /\ UNCHANGED pageVars

(***************************************************************************)
(* MainWindow: LoadingPage, PageStack, ConnectPage, InstancePage           *)
(***************************************************************************)
\* names of the instances of the zone
Items == {"vm1", "vm2"}

\* credentials["project_id"], and ZONES[0][1], the zone update_widgets selects
Project == "project"
Zone == "asia-east1-a"

\* the mappings the handlers pass to set_args
ListArgs == [project |-> Project, zone |-> Zone]
InstanceArgs(n) == [project |-> Project, zone |-> Zone, instance_name |-> n]

\* what list_instances returns: the names its pager yields
ListResults == SUBSET Items

\* what get_instance returns; complete says whether the instance has the
\* parts load_instance_details takes the first element of: a license on its
\* boot disk and an access config on its first network interface
Instances == [name : Items, complete : BOOLEAN]

\* the files the user can pick in the dialog of the connect page
CredentialFiles == {"missing", "not json", "rejected", "no project_id", "valid"}

\* LoadingPage.fade_in: show() unless visible; the animation is set to end
\* at 1.0 and started (start() leaves a running animation running)
fade_in(p) == [p EXCEPT !.visible = TRUE, !.running = TRUE, !.end = "1.0"]

\* LoadingPage.fade_out: if opacity() > 0.0 the animation is set to end at
\* 0.0 and started; fade_out_finished is connected to finished in any case
fade_out(p) ==
    [(IF p.opacity # "0.0" THEN [p EXCEPT !.running = TRUE, !.end = "0.0"] ELSE p)
        EXCEPT !.connected = TRUE]

\* LoadingPage.fade_out_finished: disconnects itself, hides the overlay
fade_out_finished(p) == [p EXCEPT !.connected = FALSE, !.visible = FALSE]

\* the timer of the running QPropertyAnimation moves the opacity towards the
\* end value
AnimationStep ==
    /\ page_loading.running
    /\ page_loading.opacity # page_loading.end
    /\ page_loading' = [page_loading EXCEPT !.opacity =
                           IF @ = "between" THEN page_loading.end ELSE "between"]
    /\ UNCHANGED <<worker, pc, args, signals, calls, uncaught>>
    /\ UNCHANGED cloudVars
    /\ UNCHANGED sshVars
    /\ UNCHANGED surfaceVars
    /\ UNCHANGED windowVars
    /\ UNCHANGED dialogVars
    /\ UNCHANGED slotVars
    /\ UNCHANGED <<stack, instances_client, blurred, list_instances, currentItem,
                   instance, widget_operations>>

\* the animation reaches its end value and emits finished, which runs
\* fade_out_finished if a fade_out connected it
AnimationFinished ==
    /\ page_loading.running
    /\ page_loading.opacity = page_loading.end
    /\ page_loading' = IF page_loading.connected
                       THEN fade_out_finished([page_loading EXCEPT !.running = FALSE])
                       ELSE [page_loading EXCEPT !.running = FALSE]
    /\ UNCHANGED <<worker, pc, args, signals, calls, uncaught>>
    /\ UNCHANGED cloudVars
    /\ UNCHANGED sshVars
    /\ UNCHANGED surfaceVars
    /\ UNCHANGED windowVars
    /\ UNCHANGED dialogVars
    /\ UNCHANGED slotVars
    /\ UNCHANGED <<stack, instances_client, blurred, list_instances, currentItem,
                   instance, widget_operations>>

\* no thread of a worker runs and no terminal signal waits for its slot
Quiescent ==
    /\ pc \in {"idle", "finished"}
    /\ handled \/ Count(signals, TerminalSignals) = 0

\* set_args(a); start() of worker w: a new run, or, the thread of w still
\* running, only the replacement of self.args
set_args_start(w, a) ==
    \/ /\ Started(w, a)
       /\ UNCHANGED windowVars
       /\ UNCHANGED dialogVars
       /\ calls' = <<>>
       /\ pc' = "work"
    \/ /\ worker = w
       /\ pc \in {"work", "call"}
       /\ args' = a
       /\ UNCHANGED <<worker, pc, signals, calls, uncaught>>
       /\ UNCHANGED cloudVars
       /\ UNCHANGED sshVars
       /\ UNCHANGED surfaceVars
       /\ UNCHANGED windowVars
       /\ UNCHANGED dialogVars
       /\ UNCHANGED slotVars

\* the body of button_list_instances_clicked: fade_in, blur,
\* list_instances.clear() (which emits currentItemChanged if there was a
\* current item: list_instances_item_changed then finds none, sets instance
\* to None and disables the operations), set_args, start
ListInstances ==
    /\ page_loading' = fade_in(page_loading)
    /\ blurred' = TRUE
    /\ list_instances' = {}
    /\ currentItem' = None
    /\ instance' = IF currentItem # None THEN NoInstance ELSE instance
    /\ widget_operations' = IF currentItem # None THEN FALSE ELSE widget_operations
    /\ set_args_start("LoadInstanceListWorker", ListArgs)

\* the body of list_instances_item_changed with item the current item:
\* instance = None, the operations are disabled and, if there is a current
\* item, fade_in, blur, set_args, start
LoadDetails(item) ==
    /\ instance' = NoInstance
    /\ widget_operations' = FALSE
    /\ page_loading' = fade_in(page_loading)
    /\ blurred' = TRUE
    /\ set_args_start("LoadInstanceDetailsWorker", InstanceArgs(item))

\* GoogleCloudClient.list_instances returns to the list worker
list_instances_returns(v) ==
    /\ worker = "LoadInstanceListWorker"
    /\ ReadOnlyCallReturns(v)

\* GoogleCloudClient.get_instance returns to the details worker: the
\* instance of the name it was called with
get_instance_returns(v) ==
    /\ worker = "LoadInstanceDetailsWorker"
    /\ pc = "call"
    /\ v.name = calls[1].args.instance_name
    /\ ReadOnlyCallReturns(v)

\* the workers of the buttons of widget_operations, which name self.instance
OperationWorkers == MutatingWorkers \ {"CreateInstanceWorker"}

\* the surface leaves the worker thread alone
ThreadUnchanged ==
    /\ UNCHANGED <<worker, pc, args, signals, calls, uncaught>>
    /\ UNCHANGED cloudVars
    /\ UNCHANGED sshVars
    /\ UNCHANGED surfaceVars
    /\ UNCHANGED windowVars
    /\ UNCHANGED dialogVars

\* a connect handler that shows the instance page whatever became of the
\* file: setCurrentWidget and update_widgets after the try statement
page_connect_button_connect_clicked_AlwaysShows(file) ==
    /\ stack = "page_connect"
    /\ file \in CredentialFiles \ {"missing"}
    /\ instances_client' =
           IF file \in {"no project_id", "valid"}
           THEN [instances_client EXCEPT ![ConnectPageClient] = "InstancesClient"]
           ELSE instances_client
    /\ stack' = "page_instance"
    /\ ListInstances

\* ConnectPage.button_connect_clicked: returns if the file does not exist;
\* reports an unreadable file and credentials load_credentials rejects;
\* else the client holds an InstancesClient, then credentials["project_id"]
\* is read (KeyError if absent), the stack shows the instance page and
\* update_widgets fills select_zone, whose first item becomes current:
\* select_zone_item_changed calls button_list_instances_clicked
page_connect_button_connect_clicked(file) ==
    /\ stack = "page_connect"
    /\ file \in CredentialFiles
    /\ instances_client' =
           IF file \in {"no project_id", "valid"}
           THEN [instances_client EXCEPT ![ConnectPageClient] = "InstancesClient"]
           ELSE instances_client
    /\ IF file = "valid"
       THEN /\ stack' = "page_instance"
            /\ ListInstances
       ELSE /\ ThreadUnchanged
            /\ UNCHANGED slotVars
            /\ UNCHANGED <<stack, page_loading, blurred, list_instances, currentItem,
                           instance, widget_operations>>

\* button_list_instances_clicked (also called by select_zone_item_changed)
button_list_instances_clicked ==
    /\ stack = "page_instance"
    /\ Quiescent \/ pc \in {"work", "call"}
    /\ ListInstances
    /\ UNCHANGED <<stack, instances_client>>

\* list_instances_item_changed: the user makes item the current item, or
\* clicks Refresh (a button of widget_operations) with item current
list_instances_item_changed(item) ==
    /\ stack = "page_instance"
    /\ item \in list_instances
    /\ item # currentItem \/ widget_operations
    /\ Quiescent \/ pc \in {"work", "call"}
    /\ currentItem' = item
    /\ LoadDetails(item)
    /\ UNCHANGED <<stack, instances_client, list_instances>>

\* button_create_instance_clicked, the dialog accepted: fade_in, blur,
\* set_args({project, zone, **dialog.instance_info}), start
button_create_instance_clicked(n) ==
    /\ stack = "page_instance"
    /\ Quiescent
    /\ page_loading' = fade_in(page_loading)
    /\ blurred' = TRUE
    /\ Started("CreateInstanceWorker", InstanceArgs(n))
    /\ UNCHANGED windowVars
    /\ UNCHANGED dialogVars
    /\ calls' = <<>>
    /\ pc' = "work"
    /\ UNCHANGED <<stack, instances_client, list_instances, currentItem, instance,
                   widget_operations>>

\* button_start_instance_clicked and the seven handlers like it (resume,
\* stop, suspend, reset, delete, set tags, set metadata; the confirmation
\* or the dialog accepted): fade_in, blur, then self.instance.name is read
\* for set_args, which raises AttributeError if instance is None
button_start_instance_clicked(w) ==
    /\ stack = "page_instance"
    /\ widget_operations
    /\ Quiescent
    /\ w \in OperationWorkers
    /\ page_loading' = fade_in(page_loading)
    /\ blurred' = TRUE
    /\ IF instance = NoInstance
       THEN ThreadUnchanged /\ UNCHANGED slotVars
       ELSE /\ Started(w, InstanceArgs(instance.name))
            /\ calls' = <<>>
            /\ pc' = "work"
    /\ UNCHANGED windowVars
    /\ UNCHANGED dialogVars
    /\ UNCHANGED <<stack, instances_client, list_instances, currentItem, instance,
                   widget_operations>>

\* the completed signal of worker w is next to be handled
CompletedPending(w) ==
    /\ worker = w
    /\ pc = "finished"
    /\ IsLast(signals, {"completed"})
    /\ ~handled

\* load_instance_list, the slot of the list worker's completed signal, run
\* by the thread of the event loop: it iterates the pager list_instances
\* returned, which fetches every page after the first from the remote, adds
\* the names to the list, fade_out, unblur
load_instance_list ==
    /\ CompletedPending("LoadInstanceListWorker")
    /\ calls' = Append(calls, Call("pages", signals[Len(signals)].val, "surface"))
    /\ list_instances' = list_instances \cup signals[Len(signals)].val
    /\ page_loading' = fade_out(page_loading)
    /\ blurred' = FALSE
    /\ handled' = TRUE
    /\ UNCHANGED <<worker, pc, args, signals, uncaught, returned, previous>>
    /\ UNCHANGED cloudVars
    /\ UNCHANGED sshVars
    /\ UNCHANGED surfaceVars
    /\ UNCHANGED windowVars
    /\ UNCHANGED dialogVars
    /\ UNCHANGED <<stack, instances_client, currentItem, instance, widget_operations>>

\* load_instance_details, the slot of the details worker's completed
\* signal: self.instance = instance; the details are read (IndexError on
\* disks[0].licenses[0] or network_interfaces[0].access_configs[0] if the
\* instance has none); then the operations are enabled, fade_out, unblur
load_instance_details ==
    /\ CompletedPending("LoadInstanceDetailsWorker")
    /\ instance' = signals[Len(signals)].val
    /\ IF signals[Len(signals)].val.complete
       THEN /\ widget_operations' = TRUE
            /\ page_loading' = fade_out(page_loading)
            /\ blurred' = FALSE
       ELSE UNCHANGED <<widget_operations, page_loading, blurred>>
    /\ handled' = TRUE
    /\ ThreadUnchanged
    /\ UNCHANGED <<returned, previous>>
    /\ UNCHANGED <<stack, instances_client, list_instances, currentItem>>

\* instance_created and instance_deleted, the slots of completed of the
\* create and the delete worker: self.button_list_instances_clicked()
instance_created(w) ==
    /\ w \in {"CreateInstanceWorker", "DeleteInstanceWorker"}
    /\ CompletedPending(w)
    /\ ListInstances
    /\ UNCHANGED <<stack, instances_client>>

\* instance_started and the six slots like it (resumed, stopped, suspended,
\* reset, tags_set, metadata_set): self.list_instances_item_changed(), which
\* submits only if there is a current item
instance_started(w) ==
    /\ w \in OperationWorkers \ {"DeleteInstanceWorker"}
    /\ CompletedPending(w)
    /\ IF currentItem # None
       THEN LoadDetails(currentItem)
       ELSE /\ instance' = NoInstance
            /\ widget_operations' = FALSE
            /\ handled' = TRUE
            /\ ThreadUnchanged
            /\ UNCHANGED <<returned, previous, page_loading, blurred>>
    /\ UNCHANGED <<stack, instances_client, list_instances, currentItem>>

\* handle_worker_exception, the slot of every failed signal: the message
\* box, fade_out, unblur
handle_worker_exception ==
    /\ worker \in CloudWorkers
    /\ pc = "finished"
    /\ IsLast(signals, {"failed"})
    /\ ~handled
    /\ page_loading' = fade_out(page_loading)
    /\ blurred' = FALSE
    /\ handled' = TRUE
    /\ ThreadUnchanged
    /\ UNCHANGED <<returned, previous>>
    /\ UNCHANGED <<stack, instances_client, list_instances, currentItem, instance,
                   widget_operations>>

(***************************************************************************)
(* Specification of the worker threads.                                    *)
(***************************************************************************)
HandlesReturned ==
    {Handle(st, NoError) : st \in {"Pending", "Running", "Done"}}
        \cup {Handle("Error", e) : e \in GoogleAPICallError}

Next ==
    \/ \E w \in CloudWorkers, a \in ArgSets : Submit(w, a)
    \/ \E w \in ReadOnlyWorkers, a \in ArgSets : Resubmit(w, a)
    \/ \E host \in NameTexts, username \in NameTexts, password \in PasswordTexts,
          key \in KeyTexts : SubmitConnect(host, username, password, key)
    \/ RemoteCall
    \/ \E v \in ReturnValues : ReadOnlyCallReturns(v)
    \/ \E h \in HandlesReturned : MutatingCallReturns(h)
    \/ \E e \in CloudErrors : CloudCallRaises(e)
    \/ \E st \in HandleStatus, e \in GoogleAPICallError \cup {NoError} : OperationProceeds(st, e)
    \/ WaitBlocks
    \/ WaitReturns
    \/ WaitRaises
    \/ ConnectReturns
    \/ \E e \in SSHErrors : ConnectRaises(e)
    \/ StartReadLoop
    \/ \E chunk \in LineChunks \cup TailChunks : ReadLine(chunk)
    \/ ReadEOF
    \/ \E e \in SSHErrors : ReadRaises(e)
    \/ FeedLine
    \/ EmitFrame
    \/ ResetScreen

Spec == Init /\ [][Next]_vars

(***************************************************************************)
(* Specification of one SSH client window: the connect form, the connect   *)
(* worker, the read loop its completion starts, and the close of the       *)
(* window.                                                                 *)
(***************************************************************************)
NextWindow ==
    \/ \E b \in {"button_password", "button_key"} : group_auth_clicked(b)
    \/ \E host \in NameTexts, username \in NameTexts, password \in PasswordTexts,
          key \in KeyTexts : button_connect_clicked(host, username, password, key)
    \/ RemoteCall
    \/ ConnectReturns
    \/ \E e \in SSHErrors : ConnectRaises(e)
    \/ connect_handle_worker_exception
    \/ ssh_client_connected
    \/ \E chunk \in LineChunks \cup TailChunks : ReadLine(chunk)
    \/ ReadEOF
    \/ \E e \in SSHErrors : ReadRaises(e)
    \/ FeedLine
    \/ EmitFrame
    \/ ResetScreen
    \/ button_execute_clicked
    \/ closeEvent
    \/ \E active \in BOOLEAN : ssh_client_session_closed(active)
    \/ command_handle_worker_exception
    \/ show_ssh_client_window
    \/ later_closeEvent

SpecWindow == Init /\ [][NextWindow]_vars

(***************************************************************************)
(* Specification of the connect page alone: the form and the connect       *)
(* worker.                                                                 *)
(***************************************************************************)
NextConnect ==
    \/ \E b \in {"button_password", "button_key"} : group_auth_clicked(b)
    \/ \E host \in NameTexts, username \in NameTexts, password \in PasswordTexts,
          key \in KeyTexts : button_connect_clicked(host, username, password, key)
    \/ RemoteCall
    \/ ConnectReturns
    \/ \E e \in SSHErrors : ConnectRaises(e)
    \/ connect_handle_worker_exception
    \/ closeEvent

SpecConnect == Init /\ [][NextConnect]_vars

(***************************************************************************)
(* Specification of a cloud worker started while another worker is         *)
(* blocked.  Fairness: the scheduler runs the thread of the followed        *)
(* worker, and the remote answers its call; nothing is assumed of the       *)
(* blocked one.                                                            *)
(***************************************************************************)
ThreadStep ==
    \/ RemoteCall
    \/ \E v \in ReturnValues : ReadOnlyCallReturns(v)
    \/ \E h \in HandlesReturned : MutatingCallReturns(h)
    \/ \E e \in CloudErrors : CloudCallRaises(e)
    \/ WaitBlocks
    \/ WaitReturns
    \/ WaitRaises

NextPeer ==
    \/ \E p \in BlockedPeers : PeerBlocks(p)
    \/ \E w \in CloudWorkers \ {peer.worker}, a \in ArgSets : Submit(w, a)
    \/ \E st \in HandleStatus, e \in GoogleAPICallError \cup {NoError} : OperationProceeds(st, e)
    \/ ThreadStep

SpecPeer == Init /\ [][NextPeer]_vars /\ WF_vars(ThreadStep)

(***************************************************************************)
(* Specification of the read loop alone, keeping the history of the data   *)
(* it has fed.                                                             *)
(***************************************************************************)
InitChunks == Constructed /\ oneShot = [on |-> TRUE, data |-> <<>>] /\ instance_tags = <<>>

NextChunks ==
    \/ StartReadLoop
    \/ \E chunk \in LineChunks \cup TailChunks : ReadLine(chunk)
    \/ ReadEOF
    \/ \E e \in SSHErrors : ReadRaises(e)
    \/ FeedLine
    \/ EmitFrame
    \/ ResetScreen

SpecChunks == InitChunks /\ [][NextChunks]_vars

(***************************************************************************)
(* Specification of the cloud workers alone, keeping the history of the    *)
(* submission before.  The remote decides every operation at once (no time *)
(* passes in the wait).                                                    *)
(***************************************************************************)
NextResubmit ==
    \/ \E w \in CloudWorkers, a \in ArgSets : Submit(w, a)
    \/ RemoteCall
    \/ \E v \in ReturnValues : ReadOnlyCallReturns(v)
    \/ \E h \in HandlesReturned : MutatingCallReturns(h)
    \/ \E e \in CloudErrors : CloudCallRaises(e)
    \/ \E st \in HandleStatus, e \in GoogleAPICallError \cup {NoError} : OperationProceeds(st, e)
    \/ WaitReturns
    \/ WaitRaises

SpecResubmit == InitChunks /\ [][NextResubmit]_vars

(***************************************************************************)
(* Specification of the main window: the connect page, the instance page   *)
(* with its workers and slots, the overlay.  The history of the submission *)
(* before is kept.  The remote decides every operation at once (no time     *)
(* passes in the wait).                                                    *)
(***************************************************************************)
NextPage ==
    \/ \E file \in CredentialFiles : page_connect_button_connect_clicked(file)
    \/ button_list_instances_clicked
    \/ \E item \in Items : list_instances_item_changed(item)
    \/ \E n \in Items : button_create_instance_clicked(n)
    \/ \E w \in OperationWorkers : button_start_instance_clicked(w)
    \/ RemoteCall
    \/ \E v \in ListResults : list_instances_returns(v)
    \/ \E v \in Instances : get_instance_returns(v)
    \/ \E h \in HandlesReturned : MutatingCallReturns(h)
    \/ \E e \in CloudErrors : CloudCallRaises(e)
    \/ \E st \in HandleStatus, e \in GoogleAPICallError \cup {NoError} : OperationProceeds(st, e)
    \/ WaitReturns
    \/ WaitRaises
    \/ load_instance_list
    \/ load_instance_details
    \/ \E w \in MutatingWorkers : instance_created(w)
    \/ \E w \in MutatingWorkers : instance_started(w)
    \/ handle_worker_exception
    \/ AnimationStep
    \/ AnimationFinished

SpecPage == InitChunks /\ [][NextPage]_vars

(***************************************************************************)
(* Specification of the set-tags dialog: the tags of the instance are      *)
(* whatever the service returned, the dialog is opened, the check boxes    *)
(* are clicked, and Set or the close button ends it.                       *)
(***************************************************************************)
DialogUnchanged ==
    /\ UNCHANGED <<worker, pc, args, signals, calls, uncaught>>
    /\ UNCHANGED cloudVars
    /\ UNCHANGED sshVars
    /\ UNCHANGED surfaceVars
    /\ UNCHANGED windowVars
    /\ UNCHANGED slotVars
    /\ UNCHANGED pageVars

\* button_set_instance_tags_clicked up to dialog.exec(): a new dialog,
\* dialog.tags = deepcopy(self.instance.tags), dialog.update_widgets()
button_set_instance_tags_clicked ==
    /\ dialog # "open"
    /\ tags' = instance_tags
    /\ check_http_server' = contains(instance_tags, "http-server")
    /\ check_https_server' = contains(instance_tags, "https-server")
    /\ dialog' = "open"
    /\ UNCHANGED instance_tags
    /\ DialogUnchanged

\* a click on one of the two check boxes
check_box_clicked(b) ==
    /\ dialog = "open"
    /\ b \in {"check_http_server", "check_https_server"}
    /\ check_http_server' = IF b = "check_http_server"
                            THEN ~check_http_server ELSE check_http_server
    /\ check_https_server' = IF b = "check_https_server"
                             THEN ~check_https_server ELSE check_https_server
    /\ UNCHANGED <<instance_tags, tags, dialog>>
    /\ DialogUnchanged

\* the dialog closed without Set: exec() returns 0
dialog_rejected ==
    /\ dialog = "open"
    /\ dialog' = "closed"
    /\ UNCHANGED <<instance_tags, tags, check_http_server, check_https_server>>
    /\ DialogUnchanged

\* button_set_clicked: the two removals, the two appends, self.accept()
button_set_clicked ==
    /\ dialog = "open"
    /\ tags' = set_items(tags, check_http_server, check_https_server)
    /\ dialog' = "accepted"
    /\ UNCHANGED <<instance_tags, check_http_server, check_https_server>>
    /\ DialogUnchanged

InitTags ==
    /\ Constructed
    /\ oneShot = [on |-> FALSE, data |-> <<>>]
    /\ instance_tags \in TagLists

NextTags ==
    \/ button_set_instance_tags_clicked
    \/ \E b \in {"check_http_server", "check_https_server"} : check_box_clicked(b)
    \/ dialog_rejected
    \/ button_set_clicked

SpecTags == InitTags /\ [][NextTags]_vars

(***************************************************************************)
(* Specification of wait_for_extended_operation called on its own: a       *)
(* caller hands it a fresh handle and a timeout of its choice.             *)
(***************************************************************************)
\* largest timeout the lone caller passes
MaxWaitTimeout == 10

InitWait ==
    /\ worker = "none"
    /\ pc = "waiting"
    /\ args = EmptyArgs
    /\ signals = <<>>
    /\ calls = <<Call("wait_for_extended_operation", "operation", "worker")>>
    /\ uncaught = NoError
    /\ handle \in HandlesReturned
    /\ timeout \in 0..MaxWaitTimeout
    /\ waited = 0
    /\ waitOutcome = "none"
    /\ raised = NoError
    /\ stdio = "open"
    /\ line = <<>>
    /\ reads = 0
    /\ screen = Screen
    /\ stream = Stream
    /\ frame = <<>>
    /\ oneShot = [on |-> FALSE, data |-> <<>>]
    /\ window = "open"
    /\ button_password = TRUE
    /\ button_key = FALSE
    /\ peer = NoPeer
    /\ enabled = TRUE
    /\ ssh_stack = "page_connect"
    /\ window_ssh = "first"
    /\ later = 0
    /\ instance_tags = <<>>
    /\ SetInstanceTagsDialog
    /\ returned = NoValue
    /\ handled = FALSE
    /\ previous = NoPrevious
    /\ MainWindow

\* the wait returns to the lone caller
CallerWaitReturns ==
    /\ pc = "waiting"
    /\ worker = "none"
    /\ wait_for_extended_operation(handle, timeout).kind = "return"
    /\ waitOutcome' = "returned"
    /\ pc' = "finished"
    /\ UNCHANGED <<worker, args, signals, calls, uncaught, handle, timeout, waited, raised>>
    /\ UNCHANGED sshVars
    /\ UNCHANGED surfaceVars
    /\ UNCHANGED windowVars
    /\ UNCHANGED dialogVars
    /\ UNCHANGED slotVars
    /\ UNCHANGED pageVars

\* the wait raises to the lone caller
CallerWaitRaises ==
    /\ pc = "waiting"
    /\ worker = "none"
    /\ wait_for_extended_operation(handle, timeout).kind = "raise"
    /\ waitOutcome' = "raised"
    /\ raised' = wait_for_extended_operation(handle, timeout).error
    /\ uncaught' = wait_for_extended_operation(handle, timeout).error
    /\ pc' = "finished"
    /\ UNCHANGED <<worker, args, signals, calls, handle, timeout, waited>>
    /\ UNCHANGED sshVars
    /\ UNCHANGED surfaceVars
    /\ UNCHANGED windowVars
    /\ UNCHANGED dialogVars
    /\ UNCHANGED slotVars
    /\ UNCHANGED pageVars

NextWait ==
    \/ \E st \in HandleStatus, e \in GoogleAPICallError \cup {NoError} : OperationProceeds(st, e)
    \/ WaitBlocks
    \/ CallerWaitReturns
    \/ CallerWaitRaises

SpecWait == InitWait /\ [][NextWait]_vars

(***************************************************************************)
(* Properties.                                                             *)
(***************************************************************************)
\* C1: every submission of a cloud or SSH worker ends with exactly one
\* terminal signal (completed or failed), emitted once and after every
\* progress signal, whatever the collaborator did (returned, raised a
\* remote-call error, raised a timeout, raised any other error).
ExactlyOneTerminalSignal ==
    /\ pc = "finished" =>
           /\ Count(signals, TerminalSignals) = 1
           /\ IsLast(signals, TerminalSignals)
    /\ pc \notin {"idle", "finished"} => Count(signals, TerminalSignals) = 0

TimeoutEmitsFailed ==
    (worker \in MutatingWorkers /\ pc = "finished"
        /\ waitOutcome = "raised" /\ raised = OperationTimeoutError) =>
        signals = <<Progress(SubmittedSignal(worker)), Failed(OperationTimeoutError)>>

\* C4: a mutating worker whose handle reaches Error during the wait emits
\* its submitted signal and then exactly one failed carrying the error the
\* remote reported, and never completed.
OperationErrorEmitsFailed ==
    (worker \in MutatingWorkers /\ pc = "finished"
        /\ waitOutcome = "raised" /\ handle.status = "Error" /\ raised = handle.error) =>
        signals = <<Progress(SubmittedSignal(worker)), Failed(handle.error)>>

\* the handle turned Error while the worker was waiting on it
OperationErrorEmitsFailedWitness ==
    /\ worker = "StartInstanceWorker"
    /\ pc = "finished"
    /\ waited = 2
    /\ handle = Handle("Error", "Forbidden")
    /\ signals = <<Progress("started"), Failed("Forbidden")>>

\* C5: wait_for_extended_operation(handle, timeout) returns normally exactly
\* when the handle is Done no later than the timeout; a handle still pending
\* when the timeout has elapsed makes it raise the timeout error, a handle
\* in Error makes it raise that error; it never waits beyond the timeout.
WaitContract ==
    [][(pc = "waiting" /\ pc' # "waiting") =>
          /\ waited <= timeout
          /\ (waitOutcome' = "returned") = (handle.status = "Done")
          /\ handle.status \in {"Pending", "Running"} =>
                 /\ waited = timeout
                 /\ waitOutcome' = "raised"
                 /\ raised' = OperationTimeoutError
          /\ handle.status = "Error" =>
                 /\ waitOutcome' = "raised"
                 /\ raised' = handle.error]_vars

\* a handle that turned Done after 2 time units, waited on with timeout 10
WaitContractWitness ==
    /\ worker = "none"
    /\ pc = "finished"
    /\ waitOutcome = "returned"
    /\ timeout = 10
    /\ waited = 2

IsReceived(s) == s.name = "received"

\* C6: after the read loop has fed the chunks it read, one feed per chunk,
\* the grid renders as it does after one feed of their concatenation to a
\* fresh emulator (what one feed leaves on the grid is there at the next).
ChunkInvariance ==
    (oneShot.on /\ pc = "emit") =>
        Frame(screen) = Frame(feed([screen |-> Screen, stream |-> Stream], oneShot.data).screen)

\* C7: the received signals of a run of the read loop carry the frames of
\* the chunks in the order the chunks were read, each frame being the
\* rendering of the screen its chunk was fed to, and a completed or failed
\* signal is the last signal of the run.
FramesInReadOrder ==
    worker = ReadWorker =>
        LET recv == SelectSeq(signals, IsReceived)
        IN  /\ \A i \in 1..Len(recv) : recv[i].chunk = i
            /\ Len(recv) <= reads
            /\ \A i \in 1..Len(signals) :
                   signals[i].name \in TerminalSignals => i = Len(signals)
            /\ pc = "reset" => (Len(recv) = reads /\ frame = Frame(screen))

\* two chunks were read and the run ended: two frames, then completed
FramesInReadOrderWitness ==
    /\ worker = ReadWorker
    /\ pc = "finished"
    /\ signals = <<Received(1), Received(2), Completed("True")>>
    /\ frame = <<"x">>

EOFCompletes ==
    worker = ReadWorker =>
        /\ (pc = "finished" /\ raised = NoError) =>
               (IsLast(signals, {"completed"}) /\ stdio = "eof")
        /\ Count(signals, {"completed"}) > 0 =>
               /\ pc = "finished"
               /\ raised = NoError
               /\ Count(signals, {"completed"}) = 1
               /\ Count(signals, {"failed"}) = 0

\* the stream ended after one chunk
EOFCompletesWitness ==
    /\ worker = ReadWorker
    /\ pc = "finished"
    /\ stdio = "eof"
    /\ reads = 1
    /\ signals = <<Received(1), Completed("True")>>

\* C10: a read that raises a transport error (socket.error, SSHException)
\* ends the loop with failed, emitted exactly once and carrying that error,
\* and completed is not emitted.
ReadErrorFails ==
    (worker = ReadWorker /\ pc = "finished" /\ raised \in SocketError \cup SSHException) =>
        /\ signals # <<>>
        /\ signals[Len(signals)] = Failed(raised)
        /\ Count(signals, {"failed"}) = 1
        /\ Count(signals, {"completed"}) = 0

\* the second read raised socket.timeout
ReadErrorFailsWitness ==
    /\ worker = ReadWorker
    /\ pc = "finished"
    /\ reads = 1
    /\ signals = <<Received(1), Failed("socket.timeout")>>
\* C11: once the SSH client window has been closed, the read of the read
\* loop (blocked or about to block) returns or raises, and the loop ends
\* there with its terminal notification: exactly one completed or failed, as
\* the last signal.
CloseEndsReadLoop ==
    (worker = ReadWorker /\ window = "closed" /\ stdio # "open") =>
        /\ pc = "read" => ENABLED (ReadEOF \/ \E e \in SSHErrors : ReadRaises(e))
        /\ pc = "finished" =>
               /\ Count(signals, TerminalSignals) = 1
               /\ IsLast(signals, TerminalSignals)
\* C12: every blocking call on a remote collaborator (a cloud client call,
\* connect, opening the shell channel, sending on the channel, fetching the
\* pages of a remote result) is executed by the thread of a worker, never
\* by the thread of the event loop.
RemoteCallsOnWorkerThreads ==
    \A i \in DOMAIN calls : calls[i].thread = "worker"

\* C13: a worker started while another worker is blocked for good (in its
\* remote call, in the wait on its operation, in readline) still runs its
\* own remote call and ends; it has then delivered its terminal signal
\* unless an error left its own run() uncaught.
BlockedPeerDoesNotPrevent ==
    (peer # NoPeer /\ pc = "work") ~>
        (/\ pc = "finished"
         /\ calls # <<>>
         /\ uncaught = NoError => Count(signals, TerminalSignals) = 1)

\* a stop was submitted and completed while a read loop stayed blocked
BlockedPeerDoesNotPreventWitness ==
    /\ peer = [worker |-> ReadWorker, pc |-> "read"]
    /\ worker = "StopInstanceWorker"
    /\ pc = "finished"
    /\ waited = 2
    /\ signals = <<Progress("stopped"), Completed("True")>>

\* C14: no handler calls set_args on a worker that is running: the
\* arguments of the remote call in flight, and of the call whose result was
\* delivered, are the latest arguments submitted to the worker.
SubmissionsSerialized ==
    (worker \in CloudWorkers /\ calls # <<>>) => calls[1].args = args

\* C15: after screen.reset() the grid is all blank, the cursor is at the
\* origin and no part of an escape sequence is pending: whatever is fed
\* next is interpreted as a fresh emulator interprets it.
ResetYieldsFreshEmulator ==
    (worker = ReadWorker /\ pc = "read") =>
        /\ screen = Screen
        /\ \A data \in LineChunks :
               feed([screen |-> screen, stream |-> stream], data)
                   = feed([screen |-> Screen, stream |-> Stream], data)

\* C16: the frame carried by received is the rows of the grid, top to
\* bottom, each row stripped of its trailing whitespace, joined.
FrameIsRowsTrimmed ==
    (worker = ReadWorker /\ pc = "reset") =>
        LET rows == [r \in 1..ScreenLines |-> rstrip(display(screen)[r])]
        IN  frame = join(rows)

\* C17: while the read loop feeds its emulator the cursor row stays within
\* [0, rows) and the cursor column within [0, columns).
CursorWithinGrid ==
    worker = ReadWorker =>
        /\ screen.y \in 0..(ScreenLines - 1)
        /\ screen.x \in 0..(ScreenColumns - 1)

\* C18: whatever was fed to the emulator, malformed or truncated escape
\* sequences included, the valid sequence ESC [ 2 H fed next is parsed as
\* such: it moves the cursor to the second row, first column, writes no
\* character and leaves no sequence pending.
MalformedInputRecovers ==
    (worker = ReadWorker /\ pc = "emit") =>
        LET after == feed([screen |-> screen, stream |-> stream], <<ESC, "[", "2", "H">>)
        IN  /\ after.screen = cursor_position(screen, 2)
            /\ after.stream = Stream

\* C19: the arguments submitted to the connect worker, and those its
\* connect call is made with, are the eight named ones: an acceptable host
\* and username, exactly one of password and key_filename other than None,
\* and the four timeouts.
ConnectArgsWellFormed ==
    worker = ConnectWorker =>
        /\ DOMAIN args = {"hostname", "username", "password", "key_filename",
                          "timeout", "banner_timeout", "auth_timeout", "channel_timeout"}
        /\ Acceptable(args.hostname)
        /\ Acceptable(args.username)
        /\ (args.password = None) # (args.key_filename = None)
        /\ args.password \in PasswordTexts \cup {None}
        /\ args.key_filename \in KeyTexts \cup {None}
        /\ \A t \in {"timeout", "banner_timeout", "auth_timeout", "channel_timeout"} :
               args[t] = ConnectTimeout
        /\ \A i \in DOMAIN calls : calls[i] = Call("connect", args, "worker")

\* a connect with the key file, submitted after the Key button was clicked,
\* has completed
ConnectArgsWellFormedWitness ==
    /\ worker = ConnectWorker
    /\ pc = "finished"
    /\ button_key
    /\ args.password = None
    /\ args.key_filename = "id_rsa"
    /\ signals = <<Completed("True")>>

\* C20: the payload of every failed signal, of a cloud worker or of an SSH
\* worker, is the error the collaborator's call raised inside work(), and
\* failed is emitted for no other reason.
FailedCarriesRaisedError ==
    \A i \in DOMAIN signals :
        signals[i].name = "failed" =>
            /\ raised # NoError
            /\ signals[i].val = raised
            /\ raised \in (IF worker \in CloudWorkers
                           THEN CloudErrors \cup {OperationTimeoutError}
                           ELSE SSHErrors)
            /\ Count(signals, {"failed"}) = 1

\* connect raised SSHException and failed carries it
FailedCarriesRaisedErrorWitness ==
    /\ worker = ConnectWorker
    /\ pc = "finished"
    /\ raised = "SSHException"
    /\ signals = <<Failed("SSHException")>>

(***************************************************************************)
(* C21: no worker retries and none swallows an error: a submission makes   *)
(* its initiating remote call (the cloud verb or connect) at most once,    *)
(* and a submission that ended with an error raised by a collaborator call *)
(* has emitted failed.                                                     *)
(***************************************************************************)
NoRetryNoSilentError ==
    worker \in CloudWorkers \cup {ConnectWorker} =>
        /\ Cardinality({i \in DOMAIN calls :
               calls[i].fn = ClientMethod(worker)}) <= 1
        /\ (pc = "finished" /\ raised # NoError) =>
               /\ Count(signals, {"failed"}) = 1
               /\ IsLast(signals, {"failed"})

WaitBoundedByDefaultTimeout ==
    [][(worker \in MutatingWorkers /\ pc = "waiting") =>
        /\ timeout = DefaultTimeout
        /\ waited <= DefaultTimeout
        /\ waited' <= DefaultTimeout
        /\ (waited = DefaultTimeout =>
               wait_for_extended_operation(handle, timeout).kind # "block")
        /\ (pc' = "finished" /\ raised' = OperationTimeoutError) =>
               /\ waited = DefaultTimeout
               /\ handle' = handle
               /\ handle.status \in {"Pending", "Running"}]_vars

WaitBoundedByDefaultTimeoutWitness ==
    /\ worker = "DeleteInstanceWorker"
    /\ pc = "finished"
    /\ raised = OperationTimeoutError
    /\ waited = DefaultTimeout
    /\ handle.status = "Running"

(***************************************************************************)
(* C26: a worker that delivered its terminal signal can be submitted       *)
(* again: the remote call of the new submission gets exactly the new       *)
(* arguments, and the new submission ends with exactly one terminal        *)
(* signal.                                                                 *)
(***************************************************************************)
ResubmissionDelivers ==
    (worker \in CloudWorkers /\ previous.worker = worker) =>
        /\ pc # "work" => calls[1] = Call(ClientMethod(worker), args, "worker")
        /\ pc = "finished" => Count(signals, TerminalSignals) = 1

(***************************************************************************)
(* C22: a cloud task of the instance page that ended in an error (a        *)
(* remote-call error, a transport error, an operation timeout) leaves the  *)
(* waiting indicator cleared once everything it set off has run: the       *)
(* overlay is hidden and the stack not blurred.                            *)
(***************************************************************************)
IndicatorClearedAfterError ==
    (/\ worker \in CloudWorkers
     /\ pc = "finished"
     /\ raised # NoError
     /\ Quiescent
     /\ ~page_loading.running) =>
        ~page_loading.visible /\ ~blurred

(***************************************************************************)
(* C27: after a mutating task has succeeded the page refreshes: the task   *)
(* submitted next is the list task (after create, delete) or the details   *)
(* task of the current item (after the others), and once that task is over *)
(* and everything it set off has run, the overlay is hidden and the stack  *)
(* not blurred.                                                            *)
(***************************************************************************)
RefreshAfterSuccess ==
    (previous.worker \in MutatingWorkers /\ previous.last = "completed") =>
        /\ worker = IF previous.worker \in {"CreateInstanceWorker", "DeleteInstanceWorker"}
                    THEN "LoadInstanceListWorker" ELSE "LoadInstanceDetailsWorker"
        /\ worker = "LoadInstanceDetailsWorker" => args = InstanceArgs(currentItem)
        /\ (pc = "finished" /\ Quiescent /\ ~page_loading.running) =>
               ~page_loading.visible /\ ~blurred

(***************************************************************************)
(* C28: the operations panel is enabled only if self.instance holds the    *)
(* details of the current list item, and a task of an operation button is  *)
(* submitted only with the name of the current item.                       *)
(***************************************************************************)
OperationsOnlyForSelected ==
    /\ widget_operations =>
           instance # NoInstance /\ instance.name = currentItem
    /\ (worker \in OperationWorkers /\ pc = "work") =>
           instance # NoInstance /\ args = InstanceArgs(currentItem)

(***************************************************************************)
(* C29: the overlay is visible from the submission of a cloud task until   *)
(* the slot of its terminal signal has run, however fade_in, fade_out and  *)
(* the end of the animation interleave.                                    *)
(***************************************************************************)
OverlayVisibleWhileTaskRuns ==
    (/\ stack = "page_instance"
     /\ worker \in CloudWorkers
     /\ \/ pc \in {"work", "call", "waiting"}
        \/ pc = "finished" /\ Count(signals, TerminalSignals) = 1 /\ ~handled) =>
        page_loading.visible

(***************************************************************************)
(* C30: whenever a cloud worker has been started, the client the workers   *)
(* use holds an InstancesClient, and it is the client the connect page     *)
(* loads the credentials into.                                             *)
(***************************************************************************)
CredentialsBeforeWorkers ==
    /\ WorkerClient = ConnectPageClient
    /\ (worker \in CloudWorkers /\ pc # "idle") =>
           /\ stack = "page_instance"
           /\ instances_client[WorkerClient] = "InstancesClient"

CredentialsBeforeWorkersWitness ==
    /\ worker = "StopInstanceWorker"
    /\ pc = "call"
    /\ instances_client[WorkerClient] = "InstancesClient"

(***************************************************************************)
(* C23: once the read loop has ended with completed (EOF) or failed (a     *)
(* transport error) and the slot of that signal has run, the SSH window    *)
(* is closed (closeEvent closes the client), whether or not the window     *)
(* was the active one; no command is sent on the channel after that.       *)
(***************************************************************************)
SessionTornDown ==
    [][(worker = ReadWorker /\ pc = "finished" /\ handled) =>
        /\ window = "closed"
        /\ calls' = calls]_vars

(***************************************************************************)
(* The connect form of the SSH client window                               *)
(***************************************************************************)
\* C31: the connect form is disabled while a connect is in flight, and once
\* the run of the connect worker is over and no slot of it is still to run,
\* the form is enabled again or the command page has replaced it: the form
\* does not stay disabled on the connect page.
ConnectFormReleased ==
    /\ (worker = ConnectWorker /\ pc \in {"work", "call"}) => ~enabled
    /\ (/\ worker = ConnectWorker
        /\ pc = "finished"
        /\ handled \/ Count(signals, TerminalSignals) = 0) =>
           (enabled \/ ssh_stack = "page_command")

\* C33: at most one SSH client window is open at any time: a request made
\* while a window is open constructs none, a request made after the window
\* was closed constructs one.
AtMostOneSSHWindow ==
    OpenWindows <= 1

\* C32: the frame the read loop emits for a chunk shows the content of that
\* chunk and nothing else: it is the rendering of the chunk just read on a
\* blank screen by a parser that carries nothing over from earlier chunks,
\* so that the frames together show each received line once.
FrameShowsOnlyChunk ==
    (worker = ReadWorker /\ pc = "reset") =>
        frame = Frame(feed([screen |-> Screen, stream |-> Stream], line).screen)

\* the tags of a list other than the two server tags, in their order
OtherTags(items) ==
    SelectSeq(items, LAMBDA t : t \notin {"http-server", "https-server"})

\* number of occurrences of x in items
Occurrences(items, x) == Cardinality({i \in DOMAIN items : items[i] = x})

\* C34: after Set, whatever the tags of the instance were and however the
\* check boxes stand, the tag list holds "http-server" exactly if HTTP
\* Server is checked and "https-server" exactly if HTTPS Server is checked,
\* each at most once, and the other tags as they were, in their order.
SetTagsFollowsCheckBoxes ==
    dialog = "accepted" =>
        /\ contains(tags, "http-server") <=> check_http_server
        /\ contains(tags, "https-server") <=> check_https_server
        /\ Occurrences(tags, "http-server") <= 1
        /\ Occurrences(tags, "https-server") <= 1
        /\ OtherTags(tags) = OtherTags(instance_tags)

=============================================================================
